---- MODULE Spec2Model ----
(***************************************************************************)
(* Model of yosys-netlist-json (src/src/lib.rs): the typed record model of *)
(* a Yosys JSON netlist, its serde-derived decoder and encoder, and the    *)
(* two AttributeVal accessors to_number and to_string_if_string.           *)
(*                                                                         *)
(* JSON text is modelled by its parse tree.  A tree keeps what the decoder *)
(* can observe: the kind of every value, the order and repetition of the   *)
(* keys of an object, and for a number whether it is an integer literal.   *)
(* Text (String) is a sequence of one-character strings, so that the       *)
(* accessors can look at characters.  Object keys are plain strings.       *)
(***************************************************************************)
EXTENDS Integers, Sequences, FiniteSets

(***************************************************************************)
(* Bounds of the model.                                                    *)
(***************************************************************************)
\* usize is modelled WordBits wide, so that overflow is within reach.
WordBits == 2
\* Longest AttributeVal / JSON string the scalar inputs range over.
MaxStrLen == 3
\* Longest array of bit values a document holds.
MaxBits == 2

RECURSIVE Pow2(_)
Pow2(k) == IF k = 0 THEN 1 ELSE 2 * Pow2(k - 1)

\* usize::MAX
MaxUsize == Pow2(WordBits) - 1

(***************************************************************************)
(* JSON parse trees (what serde_json hands to the derived visitors).       *)
(***************************************************************************)
JNull == [jnull |-> TRUE]
JBool(b) == [jbool |-> b]
\* An integer literal, e.g. 234 or -1.
JInt(n) == [jint |-> n]
\* A number literal with a fraction or an exponent, e.g. 1.0 or 1e0.
JFrac(n) == [jfrac |-> n]
JStr(s) == [jstr |-> s]
JArr(a) == [jarr |-> a]
\* An object is the sequence of its <<key, value>> members, as written.
JObj(members) == [jobj |-> members]

IsNull(j) == "jnull" \in DOMAIN j
IsBool(j) == "jbool" \in DOMAIN j
IsInt(j) == "jint" \in DOMAIN j
IsFrac(j) == "jfrac" \in DOMAIN j
IsStr(j) == "jstr" \in DOMAIN j
IsArr(j) == "jarr" \in DOMAIN j
IsObj(j) == "jobj" \in DOMAIN j

(***************************************************************************)
(* Result<T, serde_json::Error> and Option<T>.                             *)
(***************************************************************************)
Ok(v) == [ok |-> v]
Err(msg) == [err |-> msg]
IsOk(r) == "ok" \in DOMAIN r
IsErr(r) == "err" \in DOMAIN r

Some(v) == [some |-> v]
None == [none |-> TRUE]
IsSome(o) == "some" \in DOMAIN o

(***************************************************************************)
(* usize, from a JSON number: serde_json gives a non-negative integer      *)
(* literal that fits as u64, a negative one as i64, every other number as  *)
(* f64; the usize visitor takes only an in-range non-negative integer.     *)
(***************************************************************************)
usize_deserialize(j) ==
    IF IsInt(j) /\ j.jint >= 0 /\ j.jint <= MaxUsize
    THEN Ok(j.jint)
    ELSE Err("invalid type or value: expected usize")

String_deserialize(j) ==
    IF IsStr(j) THEN Ok(j.jstr) ELSE Err("invalid type: expected a string")

(***************************************************************************)
(* SpecialBit: a unit-variant enum with renamed variants.  Inside the      *)
(* untagged BitVal it is decoded from the buffered value, whose            *)
(* deserialize_enum takes a string (the variant name) or a map with a      *)
(* single key (the variant name) whose value is the unit, null.            *)
(***************************************************************************)
SpecialBits == {"_0", "_1", "X", "Z"}

SpecialBit_rename(b) ==
    CASE b = "_0" -> "0" [] b = "_1" -> "1" [] b = "X" -> "x" [] b = "Z" -> "z"

SpecialBit_variant(name) ==
    IF \E b \in SpecialBits : SpecialBit_rename(b) = name
    THEN Ok(CHOOSE b \in SpecialBits : SpecialBit_rename(b) = name)
    ELSE Err("unknown variant")

SpecialBit_deserialize(j) ==
    IF IsStr(j)
    THEN IF Len(j.jstr) = 1 THEN SpecialBit_variant(j.jstr[1])
         ELSE Err("unknown variant")
    ELSE IF IsObj(j)
    THEN IF Len(j.jobj) # 1 THEN Err("invalid value: expected map with a single key")
         ELSE IF IsErr(SpecialBit_variant(j.jobj[1][1])) THEN Err("unknown variant")
         ELSE IF ~IsNull(j.jobj[1][2]) THEN Err("invalid type: expected unit")
         ELSE SpecialBit_variant(j.jobj[1][1])
    ELSE Err("invalid type: expected string or map")

SpecialBit_serialize(b) == JStr(<<SpecialBit_rename(b)>>)

(***************************************************************************)
(* BitVal: #[serde(untagged)] enum { N(usize), S(SpecialBit) }.  Decode    *)
(* buffers the value and tries the variants in declaration order.          *)
(***************************************************************************)
BitN(n) == [N |-> n]
BitS(b) == [S |-> b]

BitVal_deserialize(j) ==
    IF IsOk(usize_deserialize(j)) THEN Ok(BitN(usize_deserialize(j).ok))
    ELSE IF IsOk(SpecialBit_deserialize(j)) THEN Ok(BitS(SpecialBit_deserialize(j).ok))
    ELSE Err("data did not match any variant of untagged enum BitVal")

\* Mutant: the constants 0 and 1 are written as the numbers 0 and 1.
BitVal_serialize_numeric(b) ==
    IF "N" \in DOMAIN b THEN JInt(b.N)
    ELSE IF b.S = "_0" THEN JInt(0)
    ELSE IF b.S = "_1" THEN JInt(1)
    ELSE SpecialBit_serialize(b.S)

BitVal_serialize(b) ==
    IF "N" \in DOMAIN b THEN JInt(b.N) ELSE SpecialBit_serialize(b.S)

(***************************************************************************)
(* AttributeVal: #[serde(untagged)] enum { N(usize), S(String) }.          *)
(***************************************************************************)
AttrN(n) == [N |-> n]
AttrS(s) == [S |-> s]

\* Mutant: a number with a fraction is cast to usize instead of refused.
AttributeVal_deserialize_lossy(j) ==
    IF IsOk(usize_deserialize(j)) THEN Ok(AttrN(usize_deserialize(j).ok))
    ELSE IF IsFrac(j) /\ j.jfrac >= 0 /\ j.jfrac <= MaxUsize THEN Ok(AttrN(j.jfrac))
    ELSE IF IsOk(String_deserialize(j)) THEN Ok(AttrS(String_deserialize(j).ok))
    ELSE Err("data did not match any variant of untagged enum AttributeVal")

AttributeVal_deserialize(j) ==
    IF IsOk(usize_deserialize(j)) THEN Ok(AttrN(usize_deserialize(j).ok))
    ELSE IF IsOk(String_deserialize(j)) THEN Ok(AttrS(String_deserialize(j).ok))
    ELSE Err("data did not match any variant of untagged enum AttributeVal")

AttributeVal_serialize(a) ==
    IF "N" \in DOMAIN a THEN JInt(a.N) ELSE JStr(a.S)

(***************************************************************************)
(* usize::from_str_radix(s, 2) as to_number calls it: an optional leading  *)
(* '+' (a lone sign is an invalid digit; '-' is not a sign for an unsigned *)
(* type), then the digits, accumulated with checked multiply and add.      *)
(***************************************************************************)
to_digit(c) == IF c = "0" THEN 0 ELSE IF c = "1" THEN 1 ELSE -1

\* Mutant: wrapping instead of checked arithmetic.
RECURSIVE accumulate_wrapping(_, _, _)
accumulate_wrapping(digits, i, acc) ==
    IF i > Len(digits) THEN Some(acc)
    ELSE IF to_digit(digits[i]) = -1 THEN None
    ELSE accumulate_wrapping(digits, i + 1,
                             (acc * 2 + to_digit(digits[i])) % (MaxUsize + 1))

RECURSIVE accumulate(_, _, _)
accumulate(digits, i, acc) ==
    IF i > Len(digits) THEN Some(acc)
    ELSE IF to_digit(digits[i]) = -1 THEN None
    ELSE IF acc * 2 > MaxUsize THEN None
    ELSE IF acc * 2 + to_digit(digits[i]) > MaxUsize THEN None
    ELSE accumulate(digits, i + 1, acc * 2 + to_digit(digits[i]))

from_str_radix(s) ==
    IF Len(s) = 0 THEN None
    ELSE IF Len(s) = 1 /\ s[1] \in {"+", "-"} THEN None
    ELSE IF s[1] = "+" THEN accumulate(Tail(s), 1, 0)
    ELSE accumulate(s, 1, 0)

to_number(a) ==
    IF "N" \in DOMAIN a THEN Some(a.N)
    ELSE IF Len(a.S) = 0 THEN Some(0)
    ELSE from_str_radix(a.S)

(***************************************************************************)
(* to_string_if_string                                                     *)
(***************************************************************************)
ConstChars == {"0", "1", "x", "z"}

RECURSIVE trim_end(_)
trim_end(s) ==
    IF Len(s) > 0 /\ s[Len(s)] = " " THEN trim_end(SubSeq(s, 1, Len(s) - 1)) ELSE s

\* Mutant: every trailing space is dropped, not only the last one.
to_string_if_string_trim(a) ==
    IF "N" \in DOMAIN a THEN None
    ELSE IF Len(a.S) = 0 THEN None
    ELSE IF \A i \in 1..Len(a.S) : a.S[i] \in ConstChars THEN None
    ELSE Some(trim_end(a.S))

\* Mutant: only the binary digits count as "not originally a string".
to_string_if_string_binary_only(a) ==
    IF "N" \in DOMAIN a THEN None
    ELSE IF Len(a.S) = 0 THEN None
    ELSE IF \A i \in 1..Len(a.S) : a.S[i] \in {"0", "1"} THEN None
    ELSE IF a.S[Len(a.S)] = " " THEN Some(SubSeq(a.S, 1, Len(a.S) - 1))
    ELSE Some(a.S)

to_string_if_string(a) ==
    IF "N" \in DOMAIN a THEN None
    ELSE IF Len(a.S) = 0 THEN None
    ELSE IF \A i \in 1..Len(a.S) : a.S[i] \in ConstChars THEN None
    ELSE IF a.S[Len(a.S)] = " " THEN Some(SubSeq(a.S, 1, Len(a.S) - 1))
    ELSE Some(a.S)

(***************************************************************************)
(* PortDirection: a unit-variant enum read straight from the JSON text.    *)
(* serde_json's deserialize_enum takes a string (the variant name) or an   *)
(* object with exactly one member, the variant name with the value null.   *)
(***************************************************************************)
PortDirections == {"Input", "Output", "InOut"}

\* The variant's name as an object key.
PortDirection_rename(d) ==
    CASE d = "Input" -> "input" [] d = "Output" -> "output" [] d = "InOut" -> "inout"

\* The variant's name as text.
PortDirection_text(d) ==
    CASE d = "Input" -> <<"i", "n", "p", "u", "t">>
      [] d = "Output" -> <<"o", "u", "t", "p", "u", "t">>
      [] d = "InOut" -> <<"i", "n", "o", "u", "t">>

PortDirection_deserialize(j) ==
    IF IsStr(j)
    THEN IF \E d \in PortDirections : PortDirection_text(d) = j.jstr
         THEN Ok(CHOOSE d \in PortDirections : PortDirection_text(d) = j.jstr)
         ELSE Err("unknown variant")
    ELSE IF IsObj(j)
    THEN IF Len(j.jobj) # 1 THEN Err("expected an object with a single member")
         ELSE IF ~\E d \in PortDirections : PortDirection_rename(d) = j.jobj[1][1]
         THEN Err("unknown variant")
         ELSE IF ~IsNull(j.jobj[1][2]) THEN Err("invalid type: expected unit")
         ELSE Ok(CHOOSE d \in PortDirections : PortDirection_rename(d) = j.jobj[1][1])
    ELSE Err("invalid type: expected string or map")

PortDirection_serialize(d) == JStr(PortDirection_text(d))

(***************************************************************************)
(* The record model.  serde's derive is driven by the declaration of each  *)
(* struct: its fields in order, each with its name, its key in the         *)
(* document (#[serde(rename)]), its type, and whether it is required (no   *)
(* #[serde(default)]).                                                     *)
(***************************************************************************)
Ty(name) == [ty |-> name]
VecOf(t) == [vec |-> t]
MapOf(t) == [map |-> t]

Field(name, key, type, required) ==
    [name |-> name, key |-> key, type |-> type, required |-> required]

Port ==
    << Field("direction", "direction", Ty("PortDirection"), TRUE),
       Field("bits", "bits", VecOf(Ty("BitVal")), TRUE),
       Field("offset", "offset", Ty("usize"), FALSE),
       Field("upto", "upto", Ty("usize"), FALSE),
       Field("signed", "signed", Ty("usize"), FALSE) >>

Cell ==
    << Field("hide_name", "hide_name", Ty("usize"), FALSE),
       Field("cell_type", "type", Ty("String"), TRUE),
       Field("parameters", "parameters", MapOf(Ty("AttributeVal")), FALSE),
       Field("attributes", "attributes", MapOf(Ty("AttributeVal")), FALSE),
       Field("port_directions", "port_directions", MapOf(Ty("PortDirection")), FALSE),
       Field("connections", "connections", MapOf(VecOf(Ty("BitVal"))), TRUE) >>

Memory ==
    << Field("hide_name", "hide_name", Ty("usize"), FALSE),
       Field("attributes", "attributes", MapOf(Ty("AttributeVal")), FALSE),
       Field("width", "width", Ty("usize"), TRUE),
       Field("size", "size", Ty("usize"), TRUE),
       Field("start_offset", "start_offset", Ty("usize"), FALSE) >>

Netname ==
    << Field("hide_name", "hide_name", Ty("usize"), FALSE),
       Field("bits", "bits", VecOf(Ty("BitVal")), TRUE),
       Field("offset", "offset", Ty("usize"), FALSE),
       Field("upto", "upto", Ty("usize"), FALSE),
       Field("signed", "signed", Ty("usize"), FALSE),
       Field("attributes", "attributes", MapOf(Ty("AttributeVal")), FALSE) >>

Module ==
    << Field("attributes", "attributes", MapOf(Ty("AttributeVal")), FALSE),
       Field("parameter_default_values", "parameter_default_values",
             MapOf(Ty("AttributeVal")), FALSE),
       Field("ports", "ports", MapOf(Ty("Port")), FALSE),
       Field("cells", "cells", MapOf(Ty("Cell")), FALSE),
       Field("memories", "memories", MapOf(Ty("Memory")), FALSE),
       Field("netnames", "netnames", MapOf(Ty("Netname")), FALSE) >>

Netlist ==
    << Field("creator", "creator", Ty("String"), FALSE),
       Field("modules", "modules", MapOf(Ty("Module")), FALSE) >>

Structs == {"Port", "Cell", "Memory", "Netname", "Module", "Netlist"}

Fields(struct) ==
    CASE struct = "Port" -> Port
      [] struct = "Cell" -> Cell
      [] struct = "Memory" -> Memory
      [] struct = "Netname" -> Netname
      [] struct = "Module" -> Module
      [] struct = "Netlist" -> Netlist

EmptyMap == [k \in {} |-> None]

\* Default::default() of the types that #[serde(default)] fields have.
Default(t) ==
    IF "map" \in DOMAIN t THEN EmptyMap
    ELSE IF t = Ty("String") THEN <<>>
    ELSE 0

(***************************************************************************)
(* Decode.  Vec<T> from an array; HashMap<String, T> from an object (a     *)
(* repeated key keeps the last value, every value is decoded); a struct    *)
(* from an object (a known key decodes its value, a second occurrence is   *)
(* an error, an unknown key is skipped, a key that never came takes the    *)
(* default or is an error) or from an array (the fields in declaration     *)
(* order, a missing tail taking the defaults, an element too many being an *)
(* error).  The first error ends the decode.                               *)
(***************************************************************************)
\* The sequence f, each element evaluated once.
Collect(f) == <<>> \o f

\* The first error of a sequence of results, if any.
FirstErr(results) ==
    IF \E i \in 1..Len(results) : IsErr(results[i])
    THEN Some(results[CHOOSE i \in 1..Len(results) :
                        /\ IsErr(results[i])
                        /\ \A h \in 1..(i - 1) : IsOk(results[h])])
    ELSE None

\* Vec<T> from the results of decoding the elements.
Vec_collect(results) ==
    IF IsSome(FirstErr(results)) THEN FirstErr(results).some
    ELSE Ok([i \in 1..Len(results) |-> results[i].ok])

\* Mutant: an entry whose value does not decode is left out.
HashMap_collect_lenient(members, results) ==
    LET good == {i \in 1..Len(members) : IsOk(results[i])}
    IN Ok([k \in {members[i][1] : i \in good} |->
             LET last == CHOOSE i \in good :
                             /\ members[i][1] = k
                             /\ \A h \in good : h > i => members[h][1] # k
             IN results[last].ok])

\* HashMap<String, T> from the members and the results of decoding their values.
HashMap_collect(members, results) ==
    IF IsSome(FirstErr(results)) THEN FirstErr(results).some
    ELSE Ok([k \in {members[i][1] : i \in 1..Len(members)} |->
              LET last == CHOOSE i \in 1..Len(members) :
                              /\ members[i][1] = k
                              /\ \A h \in (i + 1)..Len(members) : members[h][1] # k
              IN results[last].ok])

StructShape(j, nfields) ==
    IF IsObj(j) THEN Ok(TRUE)
    ELSE IF IsArr(j)
    THEN IF Len(j.jarr) > nfields THEN Err("trailing characters") ELSE Ok(TRUE)
    ELSE Err("invalid type: expected a struct")

\* How many values the document gives for a field.
FieldCount(j, key, pos) ==
    IF IsObj(j) THEN Cardinality({i \in 1..Len(j.jobj) : j.jobj[i][1] = key})
    ELSE IF IsArr(j) /\ pos <= Len(j.jarr) THEN 1
    ELSE 0

\* The first value the document gives for a field (null when none).
FieldJson(j, key, pos) ==
    IF FieldCount(j, key, pos) = 0 THEN JNull
    ELSE IF IsObj(j)
    THEN j.jobj[CHOOSE i \in 1..Len(j.jobj) :
                    /\ j.jobj[i][1] = key
                    /\ \A h \in 1..(i - 1) : j.jobj[h][1] # key][2]
    ELSE j.jarr[pos]

\* One field, `decoded` being the result of decoding FieldJson as its type.
StructField(j, field, pos, decoded) ==
    IF FieldCount(j, field.key, pos) = 0
    THEN IF field.required THEN Err("missing field") ELSE Ok(Default(field.type))
    ELSE IF FieldCount(j, field.key, pos) > 1 /\ IsOk(decoded) THEN Err("duplicate field")
    ELSE decoded

\* The struct from the results of its fields.
Struct_collect(fields, results) ==
    IF IsSome(FirstErr(results)) THEN FirstErr(results).some
    ELSE Ok([n \in {fields[i].name : i \in 1..Len(fields)} |->
              results[CHOOSE i \in 1..Len(fields) : fields[i].name = n].ok])

RECURSIVE deserialize(_, _)
deserialize(t, j) ==
    IF "vec" \in DOMAIN t
    THEN IF ~IsArr(j) THEN Err("invalid type: expected a sequence")
         ELSE Vec_collect(Collect([i \in 1..Len(j.jarr) |-> deserialize(t.vec, j.jarr[i])]))
    ELSE IF "map" \in DOMAIN t
    THEN IF ~IsObj(j) THEN Err("invalid type: expected a map")
         ELSE HashMap_collect(j.jobj,
                  Collect([i \in 1..Len(j.jobj) |-> deserialize(t.map, j.jobj[i][2])]))
    ELSE IF t.ty = "usize" THEN usize_deserialize(j)
    ELSE IF t.ty = "String" THEN String_deserialize(j)
    ELSE IF t.ty = "BitVal" THEN BitVal_deserialize(j)
    ELSE IF t.ty = "AttributeVal" THEN AttributeVal_deserialize(j)
    ELSE IF t.ty = "PortDirection" THEN PortDirection_deserialize(j)
    ELSE LET fields == Fields(t.ty)
             shape == StructShape(j, Len(fields))
         IN IF IsErr(shape) THEN shape
            ELSE Struct_collect(fields,
                     Collect([i \in 1..Len(fields) |->
                         StructField(j, fields[i], i,
                             deserialize(fields[i].type, FieldJson(j, fields[i].key, i)))]))

(***************************************************************************)
(* Encode.  A struct gives an object with every field, in declaration      *)
(* order; a HashMap gives an object in its iteration order, which is       *)
(* unspecified: an order of the keys, or (rev) the opposite one.           *)
(***************************************************************************)
RECURSIVE SetToSeq(_)
SetToSeq(S) ==
    IF S = {} THEN <<>>
    ELSE LET x == CHOOSE y \in S : TRUE IN <<x>> \o SetToSeq(S \ {x})

Reverse(q) == [i \in 1..Len(q) |-> q[Len(q) + 1 - i]]

KeyOrder(m, rev) ==
    Collect(IF rev THEN Reverse(SetToSeq(DOMAIN m)) ELSE SetToSeq(DOMAIN m))

\* Mutant: a #[serde(default)] field that holds its default is left out.
Struct_serialize_skip_default(fields, encoded) ==
    LET all == Collect([i \in 1..Len(fields) |-> <<fields[i].key, encoded[i]>>])
        kept(m) == \/ \E i \in 1..Len(fields) : fields[i].key = m[1] /\ fields[i].required
                   \/ m[2] \notin {JInt(0), JStr(<<>>), JObj(<<>>)}
    IN JObj(SelectSeq(all, kept))

\* The object of a struct, `encoded` being its fields' values encoded.
Struct_serialize(fields, encoded) ==
    JObj(Collect([i \in 1..Len(fields) |-> <<fields[i].key, encoded[i]>>]))

RECURSIVE serialize(_, _, _)
serialize(t, v, rev) ==
    IF "vec" \in DOMAIN t
    THEN JArr(Collect([i \in 1..Len(v) |-> serialize(t.vec, v[i], rev)]))
    ELSE IF "map" \in DOMAIN t
    THEN JObj(Collect([i \in 1..Len(KeyOrder(v, rev)) |->
                 <<KeyOrder(v, rev)[i], serialize(t.map, v[KeyOrder(v, rev)[i]], rev)>>]))
    ELSE IF t.ty = "usize" THEN JInt(v)
    ELSE IF t.ty = "String" THEN JStr(v)
    ELSE IF t.ty = "BitVal" THEN BitVal_serialize(v)
    ELSE IF t.ty = "AttributeVal" THEN AttributeVal_serialize(v)
    ELSE IF t.ty = "PortDirection" THEN PortDirection_serialize(v)
    ELSE Struct_serialize(Fields(t.ty),
             Collect([i \in 1..Len(Fields(t.ty)) |->
                 serialize(Fields(t.ty)[i].type, v[Fields(t.ty)[i].name], rev)]))

(***************************************************************************)
(* impl Netlist                                                            *)
(***************************************************************************)
\* Netlist::new
new(creator) == [creator |-> creator, modules |-> EmptyMap]

\* Netlist::from_slice and Netlist::from_reader: serde_json::from_slice / from_reader
from_slice(input) == deserialize(Ty("Netlist"), input)

from_reader(reader) == deserialize(Ty("Netlist"), reader)

\* Netlist::to_string: serde_json::to_string
to_string(self, rev) == Ok(serialize(Ty("Netlist"), self, rev))

\* What Netlist::to_writer hands to the writer; its own result is Ok(()).
to_writer(self, rev) == serialize(Ty("Netlist"), self, rev)

(***************************************************************************)
(* State.  A caller's view of the library: the last call, its argument and *)
(* what it returned, the Netlist the caller holds, and the last text an    *)
(* encode produced.                                                        *)
(***************************************************************************)
VARIABLES op, arg, ret, held, text

vars == <<op, arg, ret, held, text>>

(***************************************************************************)
(* Scalar inputs: JSON values handed to the BitVal and AttributeVal        *)
(* decoders, and AttributeVal values handed to the accessors.              *)
(***************************************************************************)
Chars == {"0", "1", "x", "z", " ", "w", "+", "-"}

Strs == UNION {[1..n -> Chars] : n \in 0..MaxStrLen}

ScalarObjKeys == {"0", "x", "w"}

ScalarObjVals == {JNull, JInt(0), JStr(<<"x">>)}

JVals ==
    {JNull, JBool(TRUE), JBool(FALSE), JFrac(0), JFrac(1)}
    \cup {JInt(n) : n \in -1..(MaxUsize + 1)}
    \cup {JStr(s) : s \in Strs}
    \cup {JArr(<<>>), JArr(<<JInt(1)>>), JArr(<<JStr(<<"x">>)>>)}
    \cup {JObj(<<>>)}
    \cup {JObj(<<<<k, v>>>>) : k \in ScalarObjKeys, v \in ScalarObjVals}
    \cup {JObj(<<<<"x", JNull>>, <<k, JNull>>>>) : k \in ScalarObjKeys}

AttrVals == {AttrN(n) : n \in 0..MaxUsize} \cup {AttrS(s) : s \in Strs}

ScalarInit ==
    /\ op = "init"
    /\ arg \in {[json |-> j] : j \in JVals} \cup {[attr |-> a] : a \in AttrVals}
    /\ ret = None
    /\ held = None
    /\ text = None

\* serde_json::from_str::<BitVal>
DecodeBitVal ==
    /\ op = "init"
    /\ "json" \in DOMAIN arg
    /\ op' = "BitVal"
    /\ ret' = BitVal_deserialize(arg.json)
    /\ UNCHANGED <<arg, held, text>>

\* serde_json::from_str::<AttributeVal>
DecodeAttributeVal ==
    /\ op = "init"
    /\ "json" \in DOMAIN arg
    /\ op' = "AttributeVal"
    /\ ret' = AttributeVal_deserialize(arg.json)
    /\ UNCHANGED <<arg, held, text>>

\* AttributeVal::to_number on a constructed value
ToNumber ==
    /\ op = "init"
    /\ "attr" \in DOMAIN arg
    /\ op' = "to_number"
    /\ ret' = to_number(arg.attr)
    /\ UNCHANGED <<arg, held, text>>

\* AttributeVal::to_number on a value that was just decoded
ToNumberDecoded ==
    /\ op = "AttributeVal"
    /\ IsOk(ret)
    /\ op' = "to_number"
    /\ arg' = [attr |-> ret.ok]
    /\ ret' = to_number(ret.ok)
    /\ UNCHANGED <<held, text>>

\* AttributeVal::to_string_if_string on a constructed value
ToStringIfString ==
    /\ op = "init"
    /\ "attr" \in DOMAIN arg
    /\ op' = "to_string_if_string"
    /\ ret' = to_string_if_string(arg.attr)
    /\ UNCHANGED <<arg, held, text>>

\* AttributeVal::to_string_if_string on a value that was just decoded
ToStringIfStringDecoded ==
    /\ op = "AttributeVal"
    /\ IsOk(ret)
    /\ op' = "to_string_if_string"
    /\ arg' = [attr |-> ret.ok]
    /\ ret' = to_string_if_string(ret.ok)
    /\ UNCHANGED <<held, text>>

(***************************************************************************)
(* Documents handed to from_slice / from_reader.  Each family varies one   *)
(* record inside an otherwise minimal document: every key absent, present  *)
(* and well-formed, or present and malformed.                              *)
(***************************************************************************)
Absent == None

\* The object whose members are the present ones among <<key, choice>>.
Object(choices) ==
    LET present(c) == c[2] # Absent IN JObj(SelectSeq(choices, present))

Member(k, v) == JObj(<< <<k, v>> >>)

InModule(m) == JObj(<< <<"modules", Member("m", m)>> >>)

Text(d) == JStr(PortDirection_text(d))

BitJ ==
    {JInt(0), JInt(1), JStr(<<"0">>), JStr(<<"1">>), JStr(<<"x">>), JStr(<<"z">>),
     JStr(<<"w">>), Member("x", JNull)}

BitArrays == {JArr(a) : a \in UNION {[1..n -> BitJ] : n \in 0..MaxBits}}

BitsJ == BitArrays \cup {JObj(<<>>), JStr(<<"x">>), JInt(0)}

AttrJ ==
    {JInt(1), JInt(-1), JInt(MaxUsize + 1), JFrac(1), JStr(<<>>), JStr(<<"0", "1">>),
     JStr(<<"w", " ">>), JArr(<<JInt(1)>>), JNull}

AttrMapJ == {JObj(<<>>), JArr(<<>>)} \cup {Member("k", a) : a \in AttrJ}

UsizeJ == {JInt(0), JInt(1), JInt(-1), JInt(MaxUsize + 1), JFrac(1), JStr(<<"1">>), JNull}

DirectionJ ==
    {Text(d) : d \in PortDirections}
    \cup {JStr(<<"w">>), Member("input", JNull), Member("input", JInt(0)), JInt(0)}

NetlistDocs ==
    {Object(<< <<"creator", c>>, <<"modules", m>> >>) :
        c \in {Absent, JStr(<<>>), JStr(<<"w">>), JInt(1), JNull},
        m \in {Absent, JObj(<<>>), JArr(<<>>), JNull, Member("m", JObj(<<>>)),
               JObj(<< <<"a", JObj(<<>>)>>, <<"b", JObj(<<>>)>> >>),
               JObj(<< <<"a", JObj(<<>>)>>, <<"a", JObj(<<>>)>> >>)}}
    \cup {JObj(<< <<"modules", JObj(<<>>)>>, <<"creator", JStr(<<"w">>)>> >>),
          JObj(<< <<"creator", JStr(<<"w">>)>>, <<"creator", JStr(<<"w">>)>> >>),
          JObj(<< <<"other", JNull>>, <<"modules", JObj(<<>>)>> >>),
          JArr(<<>>), JArr(<<JStr(<<"w">>)>>), JArr(<<JStr(<<"w">>), JObj(<<>>)>>),
          JArr(<<JStr(<<"w">>), JObj(<<>>), JNull>>), JNull, JInt(0), JStr(<<"w">>)}

ModuleKeys ==
    {"attributes", "parameter_default_values", "ports", "cells", "memories", "netnames",
     "other"}

ModuleDocs ==
    {InModule(Member(k, v)) : k \in ModuleKeys, v \in {JObj(<<>>), JArr(<<>>), JNull}}
    \cup {InModule(Member(k, a)) : k \in {"attributes", "parameter_default_values"},
                                   a \in AttrMapJ}
    \cup {InModule(m) : m \in {JArr(<<>>), JNull, JArr(<<JObj(<<>>), Member("k", JInt(1))>>)}}

GoodBits == JArr(<<JInt(0), JStr(<<"0">>)>>)

PortJ ==
    {Object(<< <<"direction", d>>, <<"bits", b>> >>) :
        d \in DirectionJ \cup {Absent}, b \in BitsJ \cup {Absent}}
    \cup {Object(<< <<"bits", GoodBits>>, <<"signed", g>>, <<"upto", u>>, <<"offset", o>>,
                    <<"direction", Text("Output")>> >>) :
             o \in UsizeJ \cup {Absent}, u \in {Absent, JInt(1), JNull},
             g \in {Absent, JInt(1), JStr(<<"1">>)}}
    \cup {JArr(<<>>), JArr(<<Text("InOut"), GoodBits>>),
          JArr(<<Text("InOut"), GoodBits, JInt(1), JInt(0), JInt(1)>>),
          JArr(<<Text("InOut"), GoodBits, JInt(1), JInt(0), JInt(1), JInt(0)>>), JNull}

PortDocs == {InModule(Member("ports", Member("p", x))) : x \in PortJ}

NetnameJ ==
    {Object(<< <<"hide_name", h>>, <<"bits", b>>, <<"attributes", a>> >>) :
        h \in {Absent, JInt(1), JStr(<<"1">>)},
        b \in {Absent, GoodBits, JArr(<<JStr(<<"w">>)>>), JInt(0)},
        a \in AttrMapJ \cup {Absent}}
    \cup {Object(<< <<"bits", b>>, <<"offset", o>>, <<"upto", u>>, <<"signed", g>> >>) :
             b \in {JArr(a) : a \in [1..1 -> BitJ]},
             o \in {Absent, JInt(1)}, u \in {Absent, JInt(1), JFrac(1)},
             g \in {Absent, JInt(1)}}

NetnameDocs == {InModule(Member("netnames", Member("n", x))) : x \in NetnameJ}

ConnectionsJ ==
    {JObj(<<>>), JArr(<<>>), JNull, JObj(<< <<"A", GoodBits>>, <<"B", JArr(<<>>)>> >>)}
    \cup {Member("A", b) : b \in BitsJ}

CellJ ==
    {Object(<< <<"type", t>>, <<"connections", c>> >>) :
        t \in {Absent, JStr(<<"w">>), JInt(0)}, c \in ConnectionsJ \cup {Absent}}
    \cup {Object(<< <<"hide_name", h>>, <<"type", JStr(<<"w">>)>>, <<"parameters", a>>,
                    <<"port_directions", d>>, <<"connections", JObj(<<>>)>> >>) :
             h \in {Absent, JInt(1)},
             a \in AttrMapJ \cup {Absent},
             d \in {Absent, JArr(<<>>)} \cup {Member("A", x) : x \in DirectionJ}}
    \cup {Object(<< <<"type", JStr(<<"w">>)>>, <<"attributes", a>>,
                    <<"connections", JObj(<<>>)>> >>) : a \in AttrMapJ}

CellDocs == {InModule(Member("cells", Member("c", x))) : x \in CellJ}

MemoryJ ==
    {Object(<< <<"hide_name", h>>, <<"attributes", a>>, <<"width", w>>, <<"size", z>>,
               <<"start_offset", o>> >>) :
        h \in {Absent, JInt(1), JNull},
        a \in {Absent, Member("k", JStr(<<"w">>)), JArr(<<>>)},
        w \in {Absent, JInt(1), JStr(<<"1">>)},
        z \in {Absent, JInt(0), JInt(MaxUsize + 1)},
        o \in {Absent, JInt(1), JInt(-1)}}

MemoryDocs == {InModule(Member("memories", Member("y", x))) : x \in MemoryJ}

\* A well-formed module "a" beside a module "b" with one cell.
MixedDocs ==
    {JObj(<< <<"creator", JStr(<<"w">>)>>,
             <<"modules", JObj(<< <<"a", JObj(<<>>)>>,
                                  <<"b", Member("cells", Member("c", x))>> >>)>> >>) :
        x \in {Object(<< <<"type", JStr(<<"w">>)>>, <<"parameters", a>>,
                         <<"connections", Member("IN", b)>> >>) :
                  a \in {Absent, Member("k", JInt(1)), Member("k", JArr(<<JInt(1)>>))},
                  b \in {Absent, JArr(<<JStr(<<"x">>), JInt(0)>>), JArr(<<JStr(<<"w">>)>>)}}}

Docs ==
    NetlistDocs \cup ModuleDocs \cup PortDocs \cup NetnameDocs \cup CellDocs \cup MemoryDocs
    \cup MixedDocs

Creators == {<<>>, <<"w">>, <<"w", " ">>}

(***************************************************************************)
(* The document codec as the caller drives it.                             *)
(***************************************************************************)
Init ==
    /\ op = "init"
    /\ arg \in {[doc |-> d] : d \in Docs} \cup {[creator |-> c] : c \in Creators}
    /\ ret = None
    /\ held = None
    /\ text = None

\* Netlist::from_slice
FromSlice ==
    /\ op = "init"
    /\ "doc" \in DOMAIN arg
    /\ op' = "from_slice"
    /\ ret' = from_slice(arg.doc)
    /\ held' = IF IsOk(ret') THEN ret'.ok ELSE None
    /\ UNCHANGED <<arg, text>>

\* Netlist::from_reader
FromReader ==
    /\ op = "init"
    /\ "doc" \in DOMAIN arg
    /\ op' = "from_reader"
    /\ ret' = from_reader(arg.doc)
    /\ held' = IF IsOk(ret') THEN ret'.ok ELSE None
    /\ UNCHANGED <<arg, text>>

\* Netlist::new
New ==
    /\ op = "init"
    /\ "creator" \in DOMAIN arg
    /\ op' = "new"
    /\ held' = new(arg.creator)
    /\ ret' = None
    /\ UNCHANGED <<arg, text>>

\* Netlist::to_string on the Netlist the caller holds
ToString ==
    /\ op \in {"from_slice", "from_reader", "new"}
    /\ held # None
    /\ \E rev \in BOOLEAN :
        /\ ret' = to_string(held, rev)
        /\ text' = ret'.ok
    /\ op' = "to_string"
    /\ UNCHANGED <<arg, held>>

\* Netlist::to_writer on the Netlist the caller holds
ToWriter ==
    /\ op \in {"from_slice", "from_reader", "new"}
    /\ held # None
    /\ \E rev \in BOOLEAN : text' = to_writer(held, rev)
    /\ ret' = Ok([unit |-> TRUE])
    /\ op' = "to_writer"
    /\ UNCHANGED <<arg, held>>

\* Netlist::from_slice on the text an encode produced
FromSliceText ==
    /\ op \in {"to_string", "to_writer"}
    /\ op' = "from_slice_text"
    /\ arg' = [doc |-> text]
    /\ ret' = from_slice(text)
    /\ UNCHANGED <<held, text>>

Next ==
    \/ FromSlice
    \/ FromReader
    \/ New
    \/ ToString
    \/ ToWriter
    \/ FromSliceText

Spec == Init /\ [][Next]_vars

ScalarNext ==
    \/ DecodeBitVal
    \/ DecodeAttributeVal
    \/ ToNumber
    \/ ToNumberDecoded
    \/ ToStringIfString
    \/ ToStringIfStringDecoded

ScalarSpec == ScalarInit /\ [][ScalarNext]_vars

(***************************************************************************)
(* Properties of the document codec (under Spec).                          *)
(***************************************************************************)
Decoding == op \in {"from_slice", "from_reader"}

\* The values an object gives under a key (none when j is no object).
At(j, key) ==
    IF IsObj(j) THEN {j.jobj[i][2] : i \in {h \in 1..Len(j.jobj) : j.jobj[h][1] = key}}
    ELSE {}

HasKey(j, key) == At(j, key) # {}

\* The <<name, value>> entries of an object read as a map: the last value of
\* each name.
LastEntries(j) ==
    IF IsObj(j)
    THEN {<<j.jobj[i][1], j.jobj[i][2]>> :
             i \in {h \in 1..Len(j.jobj) :
                       \A g \in (h + 1)..Len(j.jobj) : j.jobj[g][1] # j.jobj[h][1]}}
    ELSE {}

Collections == {"ports", "cells", "memories", "netnames"}

RecordType(coll) ==
    CASE coll = "ports" -> "Port" [] coll = "cells" -> "Cell"
      [] coll = "memories" -> "Memory" [] coll = "netnames" -> "Netname"

\* The modules of a document: <<name, value>>.
ModuleEntries(doc) == UNION {LastEntries(x) : x \in At(doc, "modules")}

\* The ports, cells, memories or netnames of a document:
\* <<module name, name, value>>.
RecordEntries(doc, coll) ==
    UNION {UNION {{<<m[1], r[1], r[2]>> : r \in LastEntries(x)} : x \in At(m[2], coll)} :
              m \in ModuleEntries(doc)}

\* Every record of a document with its type and, once the document is
\* decoded into netlist n, the place of its decoded value.
Records(doc) ==
    {[type |-> "Netlist", json |-> doc, path |-> <<>>]}
    \cup {[type |-> "Module", json |-> m[2], path |-> <<m[1]>>] : m \in ModuleEntries(doc)}
    \cup UNION {{[type |-> RecordType(coll), json |-> r[3], path |-> <<r[1], coll, r[2]>>] :
                    r \in RecordEntries(doc, coll)} : coll \in Collections}

Decoded(n, path) ==
    IF Len(path) = 0 THEN n
    ELSE IF Len(path) = 1 THEN n.modules[path[1]]
    ELSE n.modules[path[1]][path[2]][path[3]]

FieldSet(type) == {Fields(type)[i] : i \in 1..Len(Fields(type))}

\* Whether a JSON value has the JSON type a field's type is written as.
RightJsonType(t, v) ==
    IF "vec" \in DOMAIN t THEN IsArr(v)
    ELSE IF "map" \in DOMAIN t THEN IsObj(v)
    ELSE IF t.ty = "usize" THEN IsInt(v) \/ IsFrac(v)
    ELSE IF t.ty \in {"String", "PortDirection"} THEN IsStr(v)
    ELSE IsObj(v)

\* C1: for every Netlist M obtained from a successful decode (and for one
\* built by new), decoding the output of M.to_string() / to_writer()
\* succeeds and yields a Netlist equal to M, every BitVal and AttributeVal
\* keeping its variant and payload.
C1_RoundTrip == op = "from_slice_text" => ret = Ok(held)

\* A decoded cell connection [0, "0"] came back as N(0), S(_0).
C1_Witness ==
    /\ op = "from_slice_text"
    /\ IsOk(ret)
    /\ "m" \in DOMAIN held.modules
    /\ "c" \in DOMAIN held.modules["m"].cells
    /\ "A" \in DOMAIN held.modules["m"].cells["c"].connections
    /\ held.modules["m"].cells["c"].connections["A"] = <<BitN(0), BitS("_0")>>
    /\ ret.ok.modules["m"].cells["c"].connections["A"] = <<BitN(0), BitS("_0")>>

\* C6, first part: when the document decodes, an optional key that a record
\* does not give holds its declared default in the decoded record.
C6_Defaults ==
    (Decoding /\ IsOk(ret)) =>
        \A r \in Records(arg.doc) : \A f \in FieldSet(r.type) :
            (IsObj(r.json) /\ ~f.required /\ ~HasKey(r.json, f.key)) =>
                Decoded(ret.ok, r.path)[f.name] = Default(f.type)

\* C6, second part: a record that does not give a required key makes the
\* decode fail.
C6_Required ==
    Decoding =>
        \A r \in Records(arg.doc) : \A f \in FieldSet(r.type) :
            (IsObj(r.json) /\ f.required /\ ~HasKey(r.json, f.key)) => IsErr(ret)

\* C6, third part: a key of a record that holds a value of the wrong JSON
\* type makes the decode fail.
C6_WrongType ==
    Decoding =>
        \A r \in Records(arg.doc) : \A f \in FieldSet(r.type) :
            (IsObj(r.json) /\ \E v \in At(r.json, f.key) : ~RightJsonType(f.type, v)) =>
                IsErr(ret)

\* C6, last part: {} and {"modules":{}} decode to a Netlist with an empty
\* creator and no modules.
C6_Empty ==
    (Decoding /\ arg.doc \in {JObj(<<>>), JObj(<< <<"modules", JObj(<<>>)>> >>)}) =>
        ret = Ok([creator |-> <<>>, modules |-> EmptyMap])

\* C6 (as stated): record decode defaults: an absent optional key decodes
\* to its default, an absent required key makes the decode fail, a key that
\* holds a value of the wrong JSON type makes the decode fail, and {} and
\* {"modules":{}} decode to the empty Netlist.
C6_RecordDecode == C6_Defaults /\ C6_Required /\ C6_WrongType /\ C6_Empty

\* C7: when a single value anywhere in the document fails to decode (a bit
\* symbol inside a cell connection, an attribute value, a nested record
\* without a required field, any module or record of a module), from_slice
\* / from_reader fails for the whole document and the caller gets no
\* Netlist.
C7_AllOrNothing ==
    Decoding =>
        ((\/ \E r \in Records(arg.doc) :
                r.type # "Netlist" /\ IsErr(deserialize(Ty(r.type), r.json))
          \/ \E r \in RecordEntries(arg.doc, "cells") : \E x \in At(r[3], "connections") :
                \E e \in LastEntries(x) :
                    IsArr(e[2]) /\ \E i \in 1..Len(e[2].jarr) :
                                      IsErr(BitVal_deserialize(e[2].jarr[i]))
          \/ \E r \in Records(arg.doc) :
                \E x \in At(r.json, "attributes") \cup At(r.json, "parameters")
                         \cup At(r.json, "parameter_default_values") :
                    \E e \in LastEntries(x) : IsErr(AttributeVal_deserialize(e[2])))
         => (IsErr(ret) /\ held = None))

\* A document with a well-formed module "a" and a module "b" whose cell has
\* the connection ["w"] was refused as a whole.
C7_Witness ==
    /\ Decoding
    /\ \E m \in ModuleEntries(arg.doc) : m[1] = "a" /\ IsOk(deserialize(Ty("Module"), m[2]))
    /\ \E r \in RecordEntries(arg.doc, "cells") :
          /\ r[1] = "b"
          /\ At(r[3], "connections") = {Member("IN", JArr(<<JStr(<<"w">>)>>))}
          /\ ~HasKey(r[3], "parameters")
    /\ IsErr(ret)
    /\ held = None

\* Whether an encoded value gives every field of every record, in order.
RECURSIVE Complete(_, _)
Complete(t, j) ==
    IF "vec" \in DOMAIN t THEN IsArr(j)
    ELSE IF "map" \in DOMAIN t
    THEN IsObj(j) /\ \A i \in 1..Len(j.jobj) : Complete(t.map, j.jobj[i][2])
    ELSE IF t.ty \in Structs
    THEN /\ IsObj(j)
         /\ [i \in 1..Len(j.jobj) |-> j.jobj[i][1]]
                = [i \in 1..Len(Fields(t.ty)) |-> Fields(t.ty)[i].key]
         /\ \A i \in 1..Len(j.jobj) : Complete(Fields(t.ty)[i].type, j.jobj[i][2])
    ELSE TRUE

\* C8: encode emits every field of every record, in the record's field
\* order, also a field that holds its default; so a Netlist without modules
\* (Netlist::new(c), or decoded from {}) encodes to exactly
\* {"creator":c,"modules":{}}.
C8_EncodeAllFields ==
    op \in {"to_string", "to_writer"} =>
        /\ Complete(Ty("Netlist"), text)
        /\ held.modules = EmptyMap =>
               text = JObj(<< <<"creator", JStr(held.creator)>>, <<"modules", JObj(<<>>)>> >>)

\* The Netlist decoded from {} was encoded with both keys.
C8_Witness ==
    /\ op = "to_string"
    /\ "doc" \in DOMAIN arg
    /\ arg.doc = JObj(<<>>)
    /\ text = JObj(<< <<"creator", JStr(<<>>)>>, <<"modules", JObj(<<>>)>> >>)

(***************************************************************************)
(* Properties of the scalar codec and the accessors (under ScalarSpec).    *)
(***************************************************************************)
AllIn(s, set) == \A i \in 1..Len(s) : s[i] \in set

\* The base-2 value of a string of binary digits, as a mathematical integer.
RECURSIVE Base2(_)
Base2(s) ==
    IF Len(s) = 0 THEN 0
    ELSE 2 * Base2(SubSeq(s, 1, Len(s) - 1)) + (IF s[Len(s)] = "1" THEN 1 ELSE 0)

\* C2 (as stated): BitVal decode of one JSON value: a non-negative integer
\* n that usize holds gives N(n); the strings "0", "1", "x", "z" give
\* S(_0), S(_1), S(X), S(Z); any other string, a boolean, null, an array or
\* an object is a decode failure.
C2_BitValDecode ==
    op = "BitVal" =>
        LET j == arg.json IN
        /\ (IsInt(j) /\ j.jint >= 0 /\ j.jint <= MaxUsize) => ret = Ok(BitN(j.jint))
        /\ j = JStr(<<"0">>) => ret = Ok(BitS("_0"))
        /\ j = JStr(<<"1">>) => ret = Ok(BitS("_1"))
        /\ j = JStr(<<"x">>) => ret = Ok(BitS("X"))
        /\ j = JStr(<<"z">>) => ret = Ok(BitS("Z"))
        /\ (IsStr(j) /\ j.jstr \notin {<<"0">>, <<"1">>, <<"x">>, <<"z">>}) => IsErr(ret)
        /\ (IsBool(j) \/ IsNull(j) \/ IsArr(j) \/ IsObj(j)) => IsErr(ret)

\* C3 (as stated): AttributeVal decode of one JSON value: a bare number
\* always gives N; a string always gives S holding the raw string; an array,
\* object, boolean or null fails.
C3_Original ==
    op = "AttributeVal" =>
        LET j == arg.json IN
        /\ (IsInt(j) \/ IsFrac(j)) => (IsOk(ret) /\ "N" \in DOMAIN ret.ok)
        /\ IsStr(j) => ret = Ok(AttrS(j.jstr))
        /\ (IsBool(j) \/ IsNull(j) \/ IsArr(j) \/ IsObj(j)) => IsErr(ret)

\* C3 (amended): a number gives N(n) exactly when it is a non-negative
\* integer literal n that usize holds, and every other number (negative,
\* with a fraction or exponent, or above usize::MAX) fails; a string always
\* gives S holding the raw string unchanged; an array, object, boolean or
\* null fails.
C3_AttributeValDecode ==
    op = "AttributeVal" =>
        LET j == arg.json IN
        /\ (IsInt(j) /\ j.jint >= 0 /\ j.jint <= MaxUsize) => ret = Ok(AttrN(j.jint))
        /\ (IsInt(j) /\ (j.jint < 0 \/ j.jint > MaxUsize)) => IsErr(ret)
        /\ IsFrac(j) => IsErr(ret)
        /\ IsStr(j) => ret = Ok(AttrS(j.jstr))
        /\ (IsBool(j) \/ IsNull(j) \/ IsArr(j) \/ IsObj(j)) => IsErr(ret)

\* A string of binary digits was decoded and kept as S, not read as a number.
C3_Witness ==
    /\ op = "AttributeVal"
    /\ arg.json = JStr(<<"0", "1">>)
    /\ ret = Ok(AttrS(<<"0", "1">>))

\* C4 (as stated): to_number gives n for N(n), 0 for S(""), and None for
\* every non-empty S(s) that holds a character other than '0' or '1'.
C4_ToNumber ==
    op = "to_number" =>
        LET a == arg.attr IN
        /\ "N" \in DOMAIN a => ret = Some(a.N)
        /\ ("S" \in DOMAIN a /\ a.S = <<>>) => ret = Some(0)
        /\ ("S" \in DOMAIN a /\ a.S # <<>> /\ ~AllIn(a.S, {"0", "1"})) => ret = None

\* C5: to_string_if_string gives None for N(_), S("") and every S(s) made
\* only of 0, 1, x, z; for every other S(s) it gives s without exactly one
\* final space when s ends with a space, and s itself otherwise.
C5_ToStringIfString ==
    op = "to_string_if_string" =>
        LET a == arg.attr IN
        IF "N" \in DOMAIN a THEN ret = None
        ELSE IF a.S = <<>> \/ AllIn(a.S, {"0", "1", "x", "z"}) THEN ret = None
        ELSE IF a.S[Len(a.S)] = " " THEN IsSome(ret) /\ ret.some \o <<" ">> = a.S
        ELSE ret = Some(a.S)

\* A text ending with two spaces lost one of them only.
C5_Witness ==
    /\ op = "to_string_if_string"
    /\ arg.attr = AttrS(<<"w", " ", " ">>)
    /\ ret = Some(<<"w", " ">>)

\* C9: to_number on a non-empty S(s) made only of '0'/'1' gives exactly the
\* base-2 value of s when usize holds it, and None when the value is 2^w or
\* more; never a wrapped, truncated or zero value.
C9_ToNumberBase2 ==
    (op = "to_number" /\ "S" \in DOMAIN arg.attr /\ arg.attr.S # <<>>
        /\ AllIn(arg.attr.S, {"0", "1"})) =>
        IF Base2(arg.attr.S) <= MaxUsize
        THEN ret = Some(Base2(arg.attr.S))
        ELSE ret = None

\* A string of binary digits whose value does not fit was refused.
C9_Witness ==
    /\ op = "to_number"
    /\ "S" \in DOMAIN arg.attr
    /\ arg.attr.S # <<>>
    /\ AllIn(arg.attr.S, {"0", "1"})
    /\ Base2(arg.attr.S) > MaxUsize
    /\ ret = None

\* C10 (as stated): whenever to_string_if_string gives Some(t), t is
\* non-empty and holds at least one character outside {0,1,x,z}.
C10_Original ==
    (op = "to_string_if_string" /\ IsSome(ret)) =>
        /\ ret.some # <<>>
        /\ ~AllIn(ret.some, {"0", "1", "x", "z"})

\* C10 (amended): whenever to_string_if_string gives Some(t), t is
\* non-empty and holds a character outside {0,1,x,z}, unless the payload is
\* a (possibly empty) string over {0,1,x,z} followed by one space, and then
\* t is that string.
C10_ReturnedText ==
    (op = "to_string_if_string" /\ IsSome(ret)) =>
        \/ (ret.some # <<>> /\ ~AllIn(ret.some, {"0", "1", "x", "z"}))
        \/ (AllIn(ret.some, {"0", "1", "x", "z"}) /\ arg.attr = AttrS(ret.some \o <<" ">>))

\* The payload "01 " gave the text "01".
C10_Witness ==
    /\ op = "to_string_if_string"
    /\ arg.attr = AttrS(<<"0", "1", " ">>)
    /\ ret = Some(<<"0", "1">>)

====
